---- MODULE Spec2Model ----
(***************************************************************************)
(* x402 payment-gated VRF NFT mint.                                        *)
(*                                                                         *)
(*   Gate         example/vrfnft/vrf-resource-server.ts  POST /request-mint*)
(*   Facilitator  site/app/facilitator/settle/route.ts   POST /settle      *)
(*   Bridge       contract/VRFNFT.sol   requestNFT / fulfillRandomWords    *)
(*                                                                         *)
(* Every await of the Gate's handler is a step boundary: requests          *)
(* interleave there with each other, with the ledger and with the oracle.  *)
(***************************************************************************)
EXTENDS Integers, Sequences, FiniteSets, TLC

\* ---------------------------------------------------------------- bounds
MaxReqs == 2        \* HTTP requests the Gate receives in one behaviour
MaxIds == 2         \* request ids the VRF wrapper hands out
MaxNonce == 1       \* distinct authorization nonces a payer signs
MaxRandom == 5      \* largest random word the oracle delivers
MaxCalls == 3       \* runs of the client program
MaxPosts == 3       \* requests sent to the facilitator's /settle route directly

\* ------------------------------------------------------ program constants
REQUIRED_USDC_PAYMENT == 50000
PORT == 4023
requiredDeadlineSeconds == 60
\* ether amounts in units of 0.0001 ether
MINT_ETH_VALUE == 100
MINT_PRICE == 1
NUM_CHARACTERS == 4

SCHEME == "exact"
NETWORK_ID == "84532"
PAYMENT_RECIPIENT_ADDRESS == "0x8700"
USDC_CONTRACT_ADDRESS == "0x036C"
RESOURCE == "http://localhost:4023/request-mint"

ZeroAddress == "0x0"
Payers == {"alice", "bob"}
\* a contract account that does not implement onERC721Received
NonReceiver == "vault"

Reqs == 1..MaxReqs
RequestIds == 1..MaxIds
Nonces == 1..MaxNonce
RandomValues == 0..MaxRandom

\* ------------------------------------------------------- payment terms
\* const paymentDetailsRequired: PaymentDetails = {...}
DeclaredPaymentDetails ==
    [ scheme |-> SCHEME,
      networkId |-> NETWORK_ID,
      maxAmountRequired |-> REQUIRED_USDC_PAYMENT,
      resource |-> RESOURCE,
      description |-> "Request to mint a VRF NFT",
      mimeType |-> "application/json",
      payToAddress |-> PAYMENT_RECIPIENT_ADDRESS,
      requiredDeadlineSeconds |-> requiredDeadlineSeconds,
      usdcAddress |-> USDC_CONTRACT_ADDRESS ]

\* ------------------------------------------------- X-PAYMENT wire header
\* The header is a string: base64 of the JSON of an XPaymentHeader.  A wire
\* value is kept as its kind plus, when it is base64 of JSON, the JSON value
\* it encodes; anything else is "garbage".
Authorization(from, to, value, nonce) ==
    [ from |-> from, to |-> to, value |-> value, nonce |-> nonce ]

Envelope(version, scheme, networkId, resource, signer, auth) ==
    [ x402Version |-> version, scheme |-> scheme, networkId |-> networkId,
      resource |-> resource,
      payload |-> [ signature |-> signer, authorization |-> auth ] ]

Wire(json) == [ kind |-> "b64json", json |-> json ]

GoodAuth(p, n) == Authorization(p, PAYMENT_RECIPIENT_ADDRESS, REQUIRED_USDC_PAYMENT, n)
GoodHeader(p, n) == Wire(Envelope(1, SCHEME, NETWORK_ID, RESOURCE, p, GoodAuth(p, n)))

AbsentHeader == [ kind |-> "absent" ]
EmptyHeader == [ kind |-> "empty" ]
GarbageHeader == [ kind |-> "garbage" ]
\* scenario C of the specification: amount 40000 < 50000
LowValueHeader ==
    Wire(Envelope(1, SCHEME, NETWORK_ID, RESOURCE, "alice",
                  Authorization("alice", PAYMENT_RECIPIENT_ADDRESS, 40000, 1)))
BadSignatureHeader ==
    Wire(Envelope(1, SCHEME, NETWORK_ID, RESOURCE, "bob", GoodAuth("alice", 1)))
WrongSchemeHeader ==
    Wire(Envelope(1, "upto", NETWORK_ID, RESOURCE, "alice", GoodAuth("alice", 1)))
WrongNetworkHeader ==
    Wire(Envelope(1, SCHEME, "8453", RESOURCE, "alice", GoodAuth("alice", 1)))
WrongVersionHeader ==
    Wire(Envelope(2, SCHEME, NETWORK_ID, RESOURCE, "alice", GoodAuth("alice", 1)))
\* JSON without payload.authorization.from
NoFromHeader ==
    Wire([ x402Version |-> 1, scheme |-> SCHEME, networkId |-> NETWORK_ID,
           resource |-> RESOURCE,
           payload |-> [ signature |-> "alice",
                         authorization |-> [ to |-> PAYMENT_RECIPIENT_ADDRESS,
                                             value |-> REQUIRED_USDC_PAYMENT,
                                             nonce |-> 1 ] ] ])
Headers ==
    { AbsentHeader, EmptyHeader, GarbageHeader, LowValueHeader, BadSignatureHeader,
      WrongSchemeHeader, WrongNetworkHeader, WrongVersionHeader, NoFromHeader }
    \cup { GoodHeader(p, n) : p \in Payers, n \in Nonces }

\* !paymentHeaderBase64 : undefined and "" are falsy
HeaderMissing(h) == h.kind \in {"absent", "empty"}

\* Buffer.from(h, 'base64').toString('utf-8') then JSON.parse: throws unless
\* the string is base64 of JSON text
DecodeHeader(h) ==
    IF h.kind = "b64json" THEN [ ok |-> TRUE, json |-> h.json ] ELSE [ ok |-> FALSE ]

\* paymentHeader.payload?.authorization?.from  (undefined when a link is absent)
HasFrom(j) ==
    /\ "payload" \in DOMAIN j
    /\ "authorization" \in DOMAIN j.payload
    /\ "from" \in DOMAIN j.payload.authorization
    /\ j.payload.authorization.from # ""

\* mutant: the network is not compared
HeaderRejectedNoNetwork(j) ==
    \/ j.scheme # SCHEME
    \/ ~HasFrom(j)

\* the "Basic validation" of step 2; TRUE when the handler throws
HeaderRejected(j) ==
    \/ j.scheme # SCHEME
    \/ j.networkId # NETWORK_ID
    \/ ~HasFrom(j)


\* ------------------------------------------------------------- Verifier
\* x402/facilitator verify: the checks of the specification, section 4.1, in
\* order, the first failure giving the reason.  The time window (e) is not
\* modelled: there is no clock.
verify(j, terms) ==
    LET a == j.payload.authorization IN
    IF j.scheme # terms.scheme THEN [ isValid |-> FALSE, invalidReason |-> "scheme-mismatch" ]
    ELSE IF j.networkId # terms.networkId THEN [ isValid |-> FALSE, invalidReason |-> "network-mismatch" ]
    ELSE IF j.resource # terms.resource THEN [ isValid |-> FALSE, invalidReason |-> "resource-mismatch" ]
    ELSE IF a.value < terms.maxAmountRequired THEN [ isValid |-> FALSE, invalidReason |-> "insufficient-amount" ]
    ELSE IF a.to # terms.payToAddress THEN [ isValid |-> FALSE, invalidReason |-> "payee-mismatch" ]
    ELSE IF j.payload.signature # a.from THEN [ isValid |-> FALSE, invalidReason |-> "invalid-signature" ]
    ELSE [ isValid |-> TRUE, invalidReason |-> "" ]

\* --------------------------------------------------------------- Settler
NoTx == << >>
Accounts == Payers \cup {NonReceiver, PAYMENT_RECIPIENT_ADDRESS}
\* USDC held by each account before any settlement: bob holds none
InitialBalance ==
    [ a \in Accounts |-> IF a \in {"alice", NonReceiver} THEN 2 * REQUIRED_USDC_PAYMENT ELSE 0 ]

AuthKey(a) == << a.from, a.nonce >>

\* x402/facilitator settle, specification section 4.2: the ledger's
\* transferWithAuthorization rejects a used nonce and an uncovered amount,
\* and the receipt carries the ledger's reason.
settle(L, payload) ==
    IF payload.kind # "b64json" \/ ~HasFrom(payload.json)
    THEN [ ledger |-> L, moved |-> FALSE,
           receipt |-> [ success |-> FALSE, error |-> "invalid-payload", txHash |-> NoTx ] ]
    ELSE
    LET a == payload.json.payload.authorization IN
    IF AuthKey(a) \in L.used
    THEN [ ledger |-> L, moved |-> FALSE,
           receipt |-> [ success |-> FALSE, error |-> "nonce-already-used", txHash |-> NoTx ] ]
    ELSE IF L.balance[a.from] < a.value
    THEN [ ledger |-> L, moved |-> FALSE,
           receipt |-> [ success |-> FALSE, error |-> "insufficient-balance", txHash |-> NoTx ] ]
    ELSE [ ledger |-> [ used |-> L.used \cup { AuthKey(a) },
                        balance |-> [ L.balance EXCEPT ![a.from] = @ - a.value,
                                                       ![a.to] = @ + a.value ] ],
           moved |-> TRUE,
           receipt |-> [ success |-> TRUE, error |-> "", txHash |-> << "usdc", a.from, a.nonce >> ] ]

\* paymentDetailsSchema.parse(body.details): throws unless the details carry
\* the fields of PaymentTerms
SchemaOk(details) ==
    { "scheme", "networkId", "maxAmountRequired", "resource", "payToAddress",
      "requiredDeadlineSeconds", "usdcAddress" } \subseteq DOMAIN details

\* mutant: the details are passed to settle without paymentDetailsSchema.parse
POSTWithoutParse(key, L, body) ==
    IF ~key
    THEN [ status |-> 500, ledger |-> L, settled |-> FALSE, moved |-> FALSE,
           body |-> [ error |-> "Server configuration error: Missing private key." ] ]
    ELSE LET o == settle(L, body.payload) IN
         [ status |-> 200, ledger |-> o.ledger, settled |-> TRUE, moved |-> o.moved,
           body |-> o.receipt ]

\* mutant: the route answers success without reading what settle returned
POSTAlwaysSuccess(key, L, body) ==
    LET o == settle(L, body.payload) IN
    [ status |-> 200, ledger |-> o.ledger, settled |-> TRUE, moved |-> o.moved,
      body |-> [ success |-> TRUE, error |-> "", txHash |-> NoTx ] ]

\* site/app/facilitator/settle/route.ts POST: the HTTP reply and the ledger
\* after it.  An exception thrown by parse surfaces as status 500.
POST(key, L, body) ==
    IF ~key
    THEN [ status |-> 500, ledger |-> L, settled |-> FALSE, moved |-> FALSE,
           body |-> [ error |-> "Server configuration error: Missing private key." ] ]
    ELSE IF ~SchemaOk(body.details)
    THEN [ status |-> 500, ledger |-> L, settled |-> FALSE, moved |-> FALSE,
           body |-> [ error |-> "Internal Server Error" ] ]
    ELSE LET o == settle(L, body.payload) IN
         [ status |-> 200, ledger |-> o.ledger, settled |-> TRUE, moved |-> o.moved,
           body |-> o.receipt ]


\* ----------------------------------------------------------------- state
VARIABLES
    \* Gate, per request
    pc,                     \* position of the handler: idle, verifying, minting, settling, done
    hdr,                    \* paymentHeaderBase64
    trace,                  \* the calls the handler made and their outcomes, in order
    mintTxHash,
    settlementResult,
    resp,                   \* the response sent
    \* Gate, module level
    paymentDetailsRequired,
    \* Facilitator and ledger
    privateKey,             \* process.env.PRIVATE_KEY is set
    ledger,                 \* [used: authorizations spent, balance: USDC per account]
    settleLog,              \* the settle operations the ledger processed, in order
    \* VRF wrapper
    issued,                 \* request ids handed out
    \* VRFNFT contract
    s_requests,
    s_requestIdToRecipient,
    tokenIdCounter,
    owners,                 \* ERC721 _owners
    s_tokenIdToCharacterIndex,
    tokenURIs,
    lastTx,                 \* the last transaction sent to the contract and its outcome
    \* Caller
    calls,                  \* the runs of makeMintRequest: requests sent, replies received, outcome
    \* Gate's inbound connections
    disconnectedAt,         \* per request: the handler's position when the caller went away, "" while connected
    \* Facilitator's /settle route
    routeLog                \* the requests the route answered: body, status, reply, balances before and after

gateVars == << pc, hdr, trace, mintTxHash, settlementResult, resp, paymentDetailsRequired >>
facilitatorVars == << privateKey, ledger, settleLog >>
requestVars == << issued, s_requests, s_requestIdToRecipient >>
tokenVars == << tokenIdCounter, owners, s_tokenIdToCharacterIndex, tokenURIs >>
contractVars == << requestVars, tokenVars >>
callerVars == << calls, disconnectedAt, routeLog >>
vars == << gateVars, facilitatorVars, contractVars, lastTx, callerVars >>

TokenIds == 0..(MaxIds - 1)
NoResponse == [ status |-> 0, body |-> << >> ]
NoURI == << >>
NoHash == << >>
RandomWordSeqs == { << >> } \cup { << v >> : v \in RandomValues }
\* calculateRequestPriceNative: the wrapper's price moves with the gas price
VrfFees == { MINT_ETH_VALUE - MINT_PRICE, MINT_ETH_VALUE }

\* RequestStatus({fulfilled: false, exists: false, randomWords: []}): the zero value
EmptyRequest == [ fulfilled |-> FALSE, exists |-> FALSE, randomWords |-> << >> ]

Init ==
    /\ pc = [ r \in Reqs |-> "idle" ]
    /\ hdr = [ r \in Reqs |-> AbsentHeader ]
    /\ trace = [ r \in Reqs |-> << >> ]
    /\ mintTxHash = [ r \in Reqs |-> NoHash ]
    /\ settlementResult = [ r \in Reqs |-> << >> ]
    /\ resp = [ r \in Reqs |-> NoResponse ]
    /\ paymentDetailsRequired = DeclaredPaymentDetails
    /\ privateKey \in BOOLEAN
    /\ ledger = [ used |-> {}, balance |-> InitialBalance ]
    /\ settleLog = << >>
    /\ issued = {}
    /\ s_requests = [ id \in RequestIds |-> EmptyRequest ]
    /\ s_requestIdToRecipient = [ id \in RequestIds |-> ZeroAddress ]
    /\ tokenIdCounter = 0
    /\ owners = [ t \in TokenIds |-> ZeroAddress ]
    /\ s_tokenIdToCharacterIndex = [ t \in TokenIds |-> 0 ]
    /\ tokenURIs = [ t \in TokenIds |-> NoURI ]
    /\ lastTx = [ fn |-> "constructor", requestId |-> 0, reverted |-> FALSE, reason |-> "" ]
    /\ calls = << >>
    /\ disconnectedAt = [ r \in Reqs |-> "" ]
    /\ routeLog = << >>

\* ------------------------------------------------------- VRFNFT contract
\* mutant: the payment is not compared with the VRF fee and the mint price
requestNFTRevertNoPaymentCheck(recipient, msgValue, vrfFee) ==
    IF recipient = ZeroAddress THEN "Recipient cannot be zero address" ELSE ""

\* The require that fails in requestNFT, "" when none does.
requestNFTRevert(recipient, msgValue, vrfFee) ==
    IF recipient = ZeroAddress THEN "Recipient cannot be zero address"
    ELSE IF msgValue < vrfFee + MINT_PRICE THEN "Insufficient payment (VRF fee + mint price)"
    ELSE ""

\* requestRandomnessPayInNative: the wrapper numbers its requests
NextRequestId == Cardinality(issued) + 1

\* mutant: the requestId -> recipient correlation is not stored
requestNFTNoRecipient(recipient, msgValue, vrfFee, requestId) ==
    LET why == requestNFTRevert(recipient, msgValue, vrfFee) IN
    IF why # ""
    THEN /\ lastTx' = [ fn |-> "requestNFT", requestId |-> 0, reverted |-> TRUE, reason |-> why ]
         /\ UNCHANGED contractVars
    ELSE /\ issued' = issued \cup { requestId }
         /\ s_requests' = [ s_requests EXCEPT ![requestId] =
                              [ fulfilled |-> FALSE, exists |-> TRUE, randomWords |-> << >> ] ]
         /\ lastTx' = [ fn |-> "requestNFT", requestId |-> requestId, reverted |-> FALSE, reason |-> "" ]
         /\ UNCHANGED << s_requestIdToRecipient, tokenVars >>

\* mutant: the token is handed to the recipient when the request is made
requestNFTMintsEarly(recipient, msgValue, vrfFee, requestId) ==
    LET why == requestNFTRevert(recipient, msgValue, vrfFee) IN
    IF why # ""
    THEN /\ lastTx' = [ fn |-> "requestNFT", requestId |-> 0, reverted |-> TRUE, reason |-> why ]
         /\ UNCHANGED contractVars
    ELSE /\ issued' = issued \cup { requestId }
         /\ s_requests' = [ s_requests EXCEPT ![requestId] =
                              [ fulfilled |-> FALSE, exists |-> TRUE, randomWords |-> << >> ] ]
         /\ s_requestIdToRecipient' = [ s_requestIdToRecipient EXCEPT ![requestId] = recipient ]
         /\ owners' = [ owners EXCEPT ![tokenIdCounter] = recipient ]
         /\ lastTx' = [ fn |-> "requestNFT", requestId |-> requestId, reverted |-> FALSE, reason |-> "" ]
         /\ UNCHANGED << tokenIdCounter, s_tokenIdToCharacterIndex, tokenURIs >>

\* requestNFT(_recipient) payable, as one transaction: a failed require
\* reverts it whole.  requestId is the id requestRandomnessPayInNative returns.
requestNFT(recipient, msgValue, vrfFee, requestId) ==
    LET why == requestNFTRevert(recipient, msgValue, vrfFee) IN
    IF why # ""
    THEN /\ lastTx' = [ fn |-> "requestNFT", requestId |-> 0, reverted |-> TRUE, reason |-> why ]
         /\ UNCHANGED contractVars
    ELSE /\ issued' = issued \cup { requestId }
         /\ s_requests' = [ s_requests EXCEPT ![requestId] =
                              [ fulfilled |-> FALSE, exists |-> TRUE, randomWords |-> << >> ] ]
         /\ s_requestIdToRecipient' = [ s_requestIdToRecipient EXCEPT ![requestId] = recipient ]
         /\ lastTx' = [ fn |-> "requestNFT", requestId |-> requestId, reverted |-> FALSE, reason |-> "" ]
         /\ UNCHANGED tokenVars

\* _safeMint(to, tokenId) reverts when to is a contract that does not accept
\* ERC721 tokens
safeMintRevert(to) ==
    IF to = NonReceiver THEN "ERC721: transfer to non ERC721Receiver implementer" ELSE ""

\* mutant: no require stops a second delivery for a fulfilled request
fulfillRevertNoFulfilledCheck(requestId, randomWords) ==
    IF ~s_requests[requestId].exists THEN "Request not found"
    ELSE IF Len(randomWords) = 0 THEN "No random words received"
    ELSE IF s_requests[requestId].fulfilled THEN ""
    ELSE IF s_requestIdToRecipient[requestId] = ZeroAddress THEN "Recipient address cannot be zero"
    ELSE safeMintRevert(s_requestIdToRecipient[requestId])

\* mutant: the "Request not found" require is missing
fulfillRevertNoExistsCheck(requestId, randomWords) ==
    IF s_requests[requestId].fulfilled THEN "Request already fulfilled"
    ELSE IF Len(randomWords) = 0 THEN "No random words received"
    ELSE IF s_requestIdToRecipient[requestId] = ZeroAddress THEN "Recipient address cannot be zero"
    ELSE safeMintRevert(s_requestIdToRecipient[requestId])

\* The require that fails in fulfillRandomWords, "" when none does.
fulfillRevert(requestId, randomWords) ==
    IF ~s_requests[requestId].exists THEN "Request not found"
    ELSE IF s_requests[requestId].fulfilled THEN "Request already fulfilled"
    ELSE IF Len(randomWords) = 0 THEN "No random words received"
    ELSE IF s_requestIdToRecipient[requestId] = ZeroAddress THEN "Recipient address cannot be zero"
    ELSE safeMintRevert(s_requestIdToRecipient[requestId])

\* mutant: the random word is stored without the reduction
characterIndexNoReduction(randomWords) == randomWords[1]

\* randomWords[0] % s_characterNames.length
characterIndexOf(randomWords) == randomWords[1] % NUM_CHARACTERS

\* mutant: the delivered words are written to every existing request row
fulfillRandomWordsSharedWords(requestId, randomWords) ==
    LET why == fulfillRevert(requestId, randomWords) IN
    IF why # ""
    THEN /\ lastTx' = [ fn |-> "fulfillRandomWords", requestId |-> requestId,
                        reverted |-> TRUE, reason |-> why ]
         /\ UNCHANGED contractVars
    ELSE LET owner == s_requestIdToRecipient[requestId]
             characterIndex == characterIndexOf(randomWords)
             tokenId == tokenIdCounter
         IN  /\ s_requests' = [ id \in RequestIds |->
                                  IF id = requestId
                                  THEN [ fulfilled |-> TRUE, exists |-> TRUE, randomWords |-> randomWords ]
                                  ELSE IF s_requests[id].exists
                                  THEN [ s_requests[id] EXCEPT !.randomWords = randomWords ]
                                  ELSE s_requests[id] ]
             /\ tokenIdCounter' = tokenIdCounter + 1
             /\ s_tokenIdToCharacterIndex' =
                    [ s_tokenIdToCharacterIndex EXCEPT ![tokenId] = characterIndex ]
             /\ owners' = [ owners EXCEPT ![tokenId] = owner ]
             /\ tokenURIs' = [ tokenURIs EXCEPT ![tokenId] = << characterIndex, tokenId >> ]
             /\ s_requestIdToRecipient' = [ s_requestIdToRecipient EXCEPT ![requestId] = ZeroAddress ]
             /\ lastTx' = [ fn |-> "fulfillRandomWords", requestId |-> requestId,
                            reverted |-> FALSE, reason |-> "" ]
             /\ UNCHANGED issued

\* mutant: the recipient is not deleted after the mint
fulfillRandomWordsKeepsRecipient(requestId, randomWords) ==
    LET why == fulfillRevert(requestId, randomWords) IN
    IF why # ""
    THEN /\ lastTx' = [ fn |-> "fulfillRandomWords", requestId |-> requestId,
                        reverted |-> TRUE, reason |-> why ]
         /\ UNCHANGED contractVars
    ELSE LET owner == s_requestIdToRecipient[requestId]
             characterIndex == characterIndexOf(randomWords)
             tokenId == tokenIdCounter
         IN  /\ s_requests' = [ s_requests EXCEPT ![requestId].fulfilled = TRUE,
                                                  ![requestId].randomWords = randomWords ]
             /\ tokenIdCounter' = tokenIdCounter + 1
             /\ s_tokenIdToCharacterIndex' =
                    [ s_tokenIdToCharacterIndex EXCEPT ![tokenId] = characterIndex ]
             /\ owners' = [ owners EXCEPT ![tokenId] = owner ]
             /\ tokenURIs' = [ tokenURIs EXCEPT ![tokenId] = << characterIndex, tokenId >> ]
             /\ s_requestIdToRecipient' = s_requestIdToRecipient
             /\ lastTx' = [ fn |-> "fulfillRandomWords", requestId |-> requestId,
                            reverted |-> FALSE, reason |-> "" ]
             /\ UNCHANGED issued

\* mutant: the token counter is not incremented
fulfillRandomWordsNoIncrement(requestId, randomWords) ==
    LET why == fulfillRevert(requestId, randomWords) IN
    IF why # ""
    THEN /\ lastTx' = [ fn |-> "fulfillRandomWords", requestId |-> requestId,
                        reverted |-> TRUE, reason |-> why ]
         /\ UNCHANGED contractVars
    ELSE LET owner == s_requestIdToRecipient[requestId]
             characterIndex == characterIndexOf(randomWords)
             tokenId == tokenIdCounter
         IN  /\ s_requests' = [ s_requests EXCEPT ![requestId].fulfilled = TRUE,
                                                  ![requestId].randomWords = randomWords ]
             /\ tokenIdCounter' = tokenIdCounter
             /\ s_tokenIdToCharacterIndex' =
                    [ s_tokenIdToCharacterIndex EXCEPT ![tokenId] = characterIndex ]
             /\ owners' = [ owners EXCEPT ![tokenId] = owner ]
             /\ tokenURIs' = [ tokenURIs EXCEPT ![tokenId] = << characterIndex, tokenId >> ]
             /\ s_requestIdToRecipient' = [ s_requestIdToRecipient EXCEPT ![requestId] = ZeroAddress ]
             /\ lastTx' = [ fn |-> "fulfillRandomWords", requestId |-> requestId,
                            reverted |-> FALSE, reason |-> "" ]
             /\ UNCHANGED issued

\* fulfillRandomWords(requestId, randomWords), as one transaction
fulfillRandomWords(requestId, randomWords) ==
    LET why == fulfillRevert(requestId, randomWords) IN
    IF why # ""
    THEN /\ lastTx' = [ fn |-> "fulfillRandomWords", requestId |-> requestId,
                        reverted |-> TRUE, reason |-> why ]
         /\ UNCHANGED contractVars
    ELSE LET owner == s_requestIdToRecipient[requestId]
             characterIndex == characterIndexOf(randomWords)
             tokenId == tokenIdCounter
         IN  /\ s_requests' = [ s_requests EXCEPT ![requestId].fulfilled = TRUE,
                                                  ![requestId].randomWords = randomWords ]
             /\ tokenIdCounter' = tokenIdCounter + 1
             /\ s_tokenIdToCharacterIndex' =
                    [ s_tokenIdToCharacterIndex EXCEPT ![tokenId] = characterIndex ]
             /\ owners' = [ owners EXCEPT ![tokenId] = owner ]
             /\ tokenURIs' = [ tokenURIs EXCEPT ![tokenId] = << characterIndex, tokenId >> ]
             /\ s_requestIdToRecipient' = [ s_requestIdToRecipient EXCEPT ![requestId] = ZeroAddress ]
             /\ lastTx' = [ fn |-> "fulfillRandomWords", requestId |-> requestId,
                            reverted |-> FALSE, reason |-> "" ]
             /\ UNCHANGED issued

\* the oracle's callback, for any request id and any delivery
Fulfill ==
    \E requestId \in RequestIds, randomWords \in RandomWordSeqs :
        /\ fulfillRandomWords(requestId, randomWords)
        /\ UNCHANGED << gateVars, facilitatorVars >>

\* requestNFT is external: any account may call it
DirectRequestNFT ==
    \E recipient \in { ZeroAddress, "alice", NonReceiver }, vrfFee \in VrfFees :
        /\ NextRequestId \in RequestIds
        /\ requestNFT(recipient, MINT_ETH_VALUE, vrfFee, NextRequestId)
        /\ UNCHANGED << gateVars, facilitatorVars >>


\* ------------------------------------------------ Gate: POST /request-mint
\* mutant: the challenge advertises terms other than the declared ones
ChallengeOtherTerms(terms) ==
    [ status |-> 402,
      body |-> [ paymentDetails |-> [ terms EXCEPT !.maxAmountRequired = 0 ],
                 error |-> "Payment required" ] ]

\* step 1: c.json({ paymentDetails, error: 'Payment required' }, 402)
ChallengeResponse(terms) ==
    [ status |-> 402, body |-> [ paymentDetails |-> terms, error |-> "Payment required" ] ]

\* step 2: c.json({ error: 'Invalid payment header format.', details }, 400)
BadHeaderResponse(message) ==
    [ status |-> 400, body |-> [ error |-> "Invalid payment header format.", details |-> message ] ]

\* mutant: the Verifier's reason is dropped from the response
ReasonUnknown(verificationResult) == "Unknown"

\* step 3: verificationResult?.invalidReason || 'Unknown'
ReasonOf(verificationResult) ==
    IF verificationResult.invalidReason = "" THEN "Unknown" ELSE verificationResult.invalidReason

\* step 3: c.json({ paymentDetails, error, details }, 402)
VerifyFailedResponse(terms, verificationResult) ==
    [ status |-> 402,
      body |-> [ paymentDetails |-> terms, error |-> "Payment verification failed.",
                 details |-> ReasonOf(verificationResult) ] ]

\* mutant: a failed call of /verify is answered like a success
VerifyErrorResponseOk ==
    [ status |-> 200, body |-> [ message |-> "NFT mint request initiated successfully." ] ]

\* step 3, catch: c.json({ error: 'Facilitator verification call failed.' }, 500)
VerifyErrorResponse ==
    [ status |-> 500, body |-> [ error |-> "Facilitator verification call failed." ] ]

\* step 4, catch: c.json({ error: 'Failed to initiate NFT minting.', details }, 500)
MintFailedResponse(message) ==
    [ status |-> 500, body |-> [ error |-> "Failed to initiate NFT minting.", details |-> message ] ]

\* mutant: settlementResult starts out as a success
SettlementAssumedDone ==
    [ success |-> TRUE, error |-> "", txHash |-> NoTx ]

\* step 5: the initial value of settlementResult
SettlementNotAttempted ==
    [ success |-> FALSE, error |-> "Settlement not attempted", txHash |-> NoTx ]

\* step 6: c.json({ message, nftMintTxHash })
SuccessResponse(hash, result) ==
    [ status |-> 200,
      body |-> [ message |-> "NFT mint request initiated successfully.", nftMintTxHash |-> hash ] ]

Respond(r, response, events) ==
    /\ resp' = [ resp EXCEPT ![r] = response ]
    /\ trace' = [ trace EXCEPT ![r] = @ \o events ]
    /\ pc' = [ pc EXCEPT ![r] = "done" ]

\* steps 1 and 2, up to the await of the /verify call.  Requests are numbered
\* in the order the Gate receives them.
Receive(r, h) ==
    /\ pc[r] = "idle"
    /\ \A q \in Reqs : q < r => pc[q] # "idle"
    /\ hdr' = [ hdr EXCEPT ![r] = h ]
    /\ IF HeaderMissing(h)
       THEN Respond(r, ChallengeResponse(paymentDetailsRequired), << >>)
       ELSE LET d == DecodeHeader(h) IN
            IF ~d.ok
            THEN Respond(r, BadHeaderResponse("Unexpected token"), << >>)
            ELSE IF HeaderRejected(d.json)
            THEN Respond(r, BadHeaderResponse("Invalid or incomplete payment header content."), << >>)
            ELSE /\ pc' = [ pc EXCEPT ![r] = "verifying" ]
                 /\ trace' = [ trace EXCEPT ![r] = @ \o << "verify" >> ]
                 /\ UNCHANGED resp
    /\ UNCHANGED << mintTxHash, settlementResult, paymentDetailsRequired,
                    facilitatorVars, contractVars, lastTx >>

\* mutant: the validity test is dropped, every reply of /verify lets the
\* handler go on
VerificationNeverFailed(verificationResult) == FALSE

\* step 3: if (!verificationResult?.isValid) return 402
VerificationFailed(verificationResult) == ~verificationResult.isValid

\* step 3, from the reply of /verify (or the failure of the call) on; when the
\* payload is valid the handler goes on to step 4 and calls writeContract
VerifyResume(r, at) ==
    /\ pc[r] = at
    /\ \E reached \in BOOLEAN :
         IF ~reached
         THEN Respond(r, VerifyErrorResponse, << "verifyError" >>)
         ELSE LET verificationResult == verify(DecodeHeader(hdr[r]).json, paymentDetailsRequired)
                  replied == IF verificationResult.isValid THEN "verifyValid" ELSE "verifyInvalid"
              IN  IF VerificationFailed(verificationResult)
                  THEN Respond(r, VerifyFailedResponse(paymentDetailsRequired, verificationResult),
                               << replied >>)
                  ELSE /\ pc' = [ pc EXCEPT ![r] = "minting" ]
                       /\ trace' = [ trace EXCEPT ![r] = @ \o << replied, "trigger" >> ]
                       /\ UNCHANGED resp
    /\ UNCHANGED << hdr, mintTxHash, settlementResult, paymentDetailsRequired,
                    facilitatorVars, contractVars, lastTx >>

\* mutant: the token is requested for the payee of the authorization
recipientAddressPayee(h) == DecodeHeader(h).json.payload.authorization.to

\* const recipientAddress = paymentHeader.payload.authorization.from
recipientAddress(h) == DecodeHeader(h).json.payload.authorization.from

\* mutant: the catch block of step 4 does not return
ReachesSettleAlways(threw) == TRUE

\* mutant: the handler returns after step 4 whatever writeContract did
ReachesSettleNever(threw) == FALSE

\* step 4: the catch block returns 500, so step 5 runs only when writeContract
\* did not throw
ReachesSettle(threw) == ~threw

\* steps 4 and 5 after writeContract: the response of the catch block, or
\* step 5 up to the await of the /settle call
AfterMint(r, threw, message, hash) ==
    IF ReachesSettle(threw)
    THEN /\ mintTxHash' = [ mintTxHash EXCEPT ![r] = hash ]
         /\ settlementResult' = [ settlementResult EXCEPT ![r] = SettlementNotAttempted ]
         /\ pc' = [ pc EXCEPT ![r] = "settling" ]
         /\ trace' = [ trace EXCEPT ![r] =
                         @ \o << IF threw THEN "triggerFailed" ELSE "triggerOk", "settle" >> ]
         /\ UNCHANGED resp
    ELSE /\ Respond(r, MintFailedResponse(message),
                    << IF threw THEN "triggerFailed" ELSE "triggerOk" >>)
         /\ UNCHANGED << mintTxHash, settlementResult >>

\* step 4, from the outcome of writeContract on.  writeContract throws when
\* the provider cannot be reached and when requestNFT reverts.
MintReturn(r) ==
    /\ pc[r] = "minting"
    /\ \/ /\ AfterMint(r, TRUE, "HTTP request failed.", NoHash)
          /\ UNCHANGED << contractVars, lastTx >>
       \/ \E vrfFee \in VrfFees :
            /\ NextRequestId \in RequestIds
            /\ requestNFT(recipientAddress(hdr[r]), MINT_ETH_VALUE, vrfFee, NextRequestId)
            /\ AfterMint(r, lastTx'.reverted, lastTx'.reason,
                         IF lastTx'.reverted THEN NoHash ELSE << "mint", NextRequestId >>)
    /\ UNCHANGED << hdr, paymentDetailsRequired, facilitatorVars >>

\* the handler resumes as soon as the call of /verify has an outcome
VerifyReturn(r) == VerifyResume(r, "verifying")

\* the body the Gate posts to /settle
SettleBody(r) == [ payload |-> hdr[r], details |-> paymentDetailsRequired ]

\* step 5, from the outcome of the /settle call on, and step 6.  axios throws
\* when the facilitator is not reached, when its reply is lost and when the
\* reply's status is not 2xx; settlementResult then keeps its initial value.
SettleResume(r, at) ==
    /\ pc[r] = at
    /\ \E net \in { "ok", "lost", "unreached" } :
         IF net = "unreached"
         THEN /\ UNCHANGED << settlementResult, ledger, settleLog >>
              /\ Respond(r, SuccessResponse(mintTxHash[r], settlementResult[r]), << "settleError" >>)
         ELSE LET reply == POST(privateKey, ledger, SettleBody(r)) IN
              /\ ledger' = reply.ledger
              /\ settleLog' = IF reply.settled
                              THEN Append(settleLog, [ payload |-> hdr[r], receipt |-> reply.body,
                                                       moved |-> reply.moved,
                                                       balances |-> ledger.balance ])
                              ELSE settleLog
              /\ IF net = "ok" /\ reply.status = 200
                 THEN /\ settlementResult' = [ settlementResult EXCEPT ![r] = reply.body ]
                      /\ Respond(r, SuccessResponse(mintTxHash[r], settlementResult'[r]),
                                 << "settleReplied" >>)
                 ELSE /\ UNCHANGED settlementResult
                      /\ Respond(r, SuccessResponse(mintTxHash[r], settlementResult[r]),
                                 << "settleError" >>)
    /\ UNCHANGED << hdr, mintTxHash, paymentDetailsRequired, privateKey, contractVars, lastTx >>

\* the handler resumes as soon as the call of /settle has an outcome
SettleReturn(r) == SettleResume(r, "settling")

GateReceive == \E r \in Reqs, h \in Headers : Receive(r, h)
GateVerifyReturn == \E r \in Reqs : VerifyReturn(r)
GateMintReturn == \E r \in Reqs : MintReturn(r)
GateSettleReturn == \E r \in Reqs : SettleReturn(r)

\* the oracle answering a pending request with one word
OracleCallback ==
    \E requestId \in RequestIds :
        /\ s_requests[requestId].exists
        /\ ~s_requests[requestId].fulfilled
        /\ fulfillRandomWords(requestId, << MaxRandom >>)
        /\ UNCHANGED << gateVars, facilitatorVars >>

\* The whole system: the Gate's requests, the facilitator and the oracle.
Next ==
    \/ GateReceive /\ UNCHANGED callerVars
    \/ GateVerifyReturn /\ UNCHANGED callerVars
    \/ GateMintReturn /\ UNCHANGED callerVars
    \/ GateSettleReturn /\ UNCHANGED callerVars
    \/ OracleCallback /\ UNCHANGED callerVars

\* The Gate's behaviours are explored against a facilitator that is
\* configured (PRIVATE_KEY set); a facilitator that is not answers every
\* /settle with status 500, which the Gate sees as a failed call (net # "ok").
GateInit == Init /\ privateKey

Spec == GateInit /\ [][Next]_vars

\* The contract alone: any account calls requestNFT, the oracle delivers any
\* words for any request id.
BridgeNext ==
    \/ DirectRequestNFT /\ UNCHANGED callerVars
    \/ Fulfill /\ UNCHANGED callerVars

BridgeSpec == Init /\ [][BridgeNext]_vars


\* --------------------------------------------------- Caller: vrf-client.ts
\* privateKeyToAccount(clientPrivateKey)
clientAccount == "alice"

\* the statuses the handler of POST /request-mint answers with
GateStatuses == { 200, 400, 402, 500 }

\* x402/axios: the header built from the terms of a 402 reply, with payer =
\* own address, payee = terms.payee, amount = terms.amountRequired and a fresh
\* nonce, signed by the wallet
SignedHeader(terms, payer, nonce) ==
    Wire(Envelope(1, terms.scheme, terms.networkId, terms.resource, payer,
                  Authorization(payer, terms.payToAddress, terms.maxAmountRequired, nonce)))

\* x402/axios: a 402 reply is paid for and retried unless the request that
\* got it is itself the retry
InterceptorRetries(status, isRetry) == status = 402 /\ ~isRetry

\* the headers signed so far, over all runs
SignedSoFar ==
    { << k, i >> \in (1..MaxCalls) \X (1..4) :
        k \in DOMAIN calls /\ i \in DOMAIN calls[k].requests /\ calls[k].requests[i] # AbsentHeader }

\* a freshly generated single-use nonce
FreshNonce == Cardinality(SignedSoFar) + 1

\* mutant: the catch block posts again when the failure is a 402
CallerRepeatsOn402(status) == status = 402

\* makeMintRequest, catch: logs and process.exit(1); nothing is sent again
CallerRepeats(status) == FALSE

\* makeMintRequest(): axiosInstance.post(requestMintUrl, {}), one run of the
\* program after the other
MakeMintRequest ==
    /\ Len(calls) < MaxCalls
    /\ calls # << >> => calls[Len(calls)].outcome # "pending"
    /\ calls' = Append(calls, [ requests |-> << AbsentHeader >>, replies |-> << >>,
                                outcome |-> "pending" ])
    /\ UNCHANGED << gateVars, facilitatorVars, contractVars, lastTx, disconnectedAt, routeLog >>

\* a reply of the resource server reaches axiosInstance: the interceptor pays
\* and retries, or the reply (the error) goes to makeMintRequest
ServerReply(status) ==
    /\ calls # << >>
    /\ LET k == Len(calls)
           c == calls[k]
           replies == Append(c.replies, status)
           isRetry == c.requests[Len(c.requests)] # AbsentHeader
       IN  /\ c.outcome = "pending"
           /\ calls' =
                [ calls EXCEPT ![k] =
                    IF InterceptorRetries(status, isRetry)
                    THEN [ requests |-> Append(c.requests,
                                               SignedHeader(ChallengeResponse(DeclaredPaymentDetails).body.paymentDetails,
                                                            clientAccount, FreshNonce)),
                           replies |-> replies, outcome |-> "pending" ]
                    ELSE IF status = 200
                    THEN [ requests |-> c.requests, replies |-> replies, outcome |-> "succeeded" ]
                    ELSE IF CallerRepeats(status)
                    THEN [ requests |-> Append(c.requests, AbsentHeader),
                           replies |-> replies, outcome |-> "pending" ]
                    ELSE [ requests |-> c.requests, replies |-> replies, outcome |-> "exited" ] ]
    /\ UNCHANGED << gateVars, facilitatorVars, contractVars, lastTx, disconnectedAt, routeLog >>

ClientNext ==
    \/ MakeMintRequest
    \/ \E status \in GateStatuses : ServerReply(status)

\* The client program against a resource server that answers with any of
\* the Gate's statuses.
ClientSpec == GateInit /\ [][ClientNext]_vars


\* ------------------------------------- Gate against a silent facilitator
\* await axios.post(...): the promise settles when the facilitator replies or
\* the connection fails; no timeout is passed, so it need not settle
FacilitatorAnswers(r) ==
    /\ pc[r] \in { "verifying", "settling" }
    /\ pc' = [ pc EXCEPT ![r] = IF @ = "verifying" THEN "verifyAnswered" ELSE "settleAnswered" ]
    /\ UNCHANGED << hdr, trace, mintTxHash, settlementResult, resp, paymentDetailsRequired,
                    facilitatorVars, contractVars, lastTx, callerVars >>

LiveVerifyResume(r) == VerifyResume(r, "verifyAnswered") /\ UNCHANGED callerVars
LiveMintReturn(r) == MintReturn(r) /\ UNCHANGED callerVars
LiveSettleResume(r) == SettleResume(r, "settleAnswered") /\ UNCHANGED callerVars

LiveNext ==
    \/ GateReceive /\ UNCHANGED callerVars
    \/ \E r \in Reqs : FacilitatorAnswers(r)
    \/ \E r \in Reqs : LiveVerifyResume(r)
    \/ \E r \in Reqs : LiveMintReturn(r)
    \/ \E r \in Reqs : LiveSettleResume(r)
    \/ OracleCallback /\ UNCHANGED callerVars

\* The handler runs whenever it can: it resumes once an awaited call has an
\* outcome, and the writeContract call always has one (viem's http transport
\* gives up after its timeout).  Nothing makes the facilitator answer.
LiveSpec ==
    /\ GateInit
    /\ [][LiveNext]_vars
    /\ \A r \in Reqs :
         /\ WF_vars(LiveVerifyResume(r))
         /\ WF_vars(LiveMintReturn(r))
         /\ WF_vars(LiveSettleResume(r))


\* ------------------------------------------ Gate and a caller that leaves
\* mutant: the handler is abandoned when the caller went away
StopsWhenCallerLeft(left) == left

\* the handler reads nothing of the connection: it goes on whether or not
\* the caller is still there
StopsWhenCallerGone(left) == FALSE

\* the caller closes the connection of a request whose trigger has been
\* sent and whose handler has not answered yet
Disconnect(r) ==
    /\ pc[r] \in { "minting", "settling" }
    /\ disconnectedAt[r] = ""
    /\ disconnectedAt' = [ disconnectedAt EXCEPT ![r] = pc[r] ]
    /\ UNCHANGED << gateVars, facilitatorVars, contractVars, lastTx, calls, routeLog >>

\* the transaction was sent; a handler that stops here posts nothing to
\* /settle and answers nothing
AbandonedAfterMint(r) ==
    /\ pc[r] = "minting"
    /\ \E vrfFee \in VrfFees :
         /\ NextRequestId \in RequestIds
         /\ requestNFT(recipientAddress(hdr[r]), MINT_ETH_VALUE, vrfFee, NextRequestId)
         /\ trace' = [ trace EXCEPT ![r] =
                         @ \o << IF lastTx'.reverted THEN "triggerFailed" ELSE "triggerOk" >> ]
         /\ mintTxHash' = [ mintTxHash EXCEPT ![r] =
                              IF lastTx'.reverted THEN NoHash ELSE << "mint", NextRequestId >> ]
    /\ pc' = [ pc EXCEPT ![r] = "done" ]
    /\ UNCHANGED << hdr, settlementResult, resp, paymentDetailsRequired, facilitatorVars >>

\* step 4 on, for a request whose caller may have left
CancelMintReturn(r) ==
    IF StopsWhenCallerGone(disconnectedAt[r] # "")
    THEN AbandonedAfterMint(r)
    ELSE MintReturn(r)

\* the header the client presents on its retry; presented again by a later
\* request it is a replay
PaidHeaders == { GoodHeader(clientAccount, 1) }

CancelNext ==
    \/ (\E r \in Reqs, h \in PaidHeaders : Receive(r, h)) /\ UNCHANGED callerVars
    \/ \E r \in Reqs : Disconnect(r)
    \/ GateVerifyReturn /\ UNCHANGED callerVars
    \/ (\E r \in Reqs : CancelMintReturn(r)) /\ UNCHANGED callerVars
    \/ GateSettleReturn /\ UNCHANGED callerVars
    \/ OracleCallback /\ UNCHANGED callerVars

\* The Gate with callers that may close their connection while their
\* request is handled.
CancelSpec == GateInit /\ [][CancelNext]_vars


\* ------------------------------- Gate and other callers of the contract
TriggerNext ==
    \/ (\E r \in Reqs, h \in PaidHeaders : Receive(r, h)) /\ UNCHANGED callerVars
    \/ GateVerifyReturn /\ UNCHANGED callerVars
    \/ GateMintReturn /\ UNCHANGED callerVars
    \/ GateSettleReturn /\ UNCHANGED callerVars
    \/ DirectRequestNFT /\ UNCHANGED callerVars
    \/ OracleCallback /\ UNCHANGED callerVars

\* The Gate's paid requests next to accounts that call requestNFT themselves.
TriggerSpec == GateInit /\ [][TriggerNext]_vars


\* --------------------------------- Facilitator's /settle route on its own
\* details that lack fields of PaymentDetails
IncompleteDetails == [ scheme |-> SCHEME, networkId |-> NETWORK_ID ]

\* the bodies req.json() yields
RouteBodies ==
    [ payload : { GoodHeader("alice", 1), GoodHeader("bob", 1), GarbageHeader },
      details : { DeclaredPaymentDetails, IncompleteDetails } ]

\* a client posts to /settle
RoutePOST(body) ==
    /\ Len(routeLog) < MaxPosts
    /\ LET reply == POST(privateKey, ledger, body) IN
       /\ ledger' = reply.ledger
       /\ settleLog' = IF reply.settled
                       THEN Append(settleLog, [ payload |-> body.payload, receipt |-> reply.body,
                                                moved |-> reply.moved,
                                                balances |-> ledger.balance ])
                       ELSE settleLog
       /\ routeLog' = Append(routeLog, [ body |-> body, key |-> privateKey,
                                         status |-> reply.status, reply |-> reply.body,
                                         before |-> ledger, after |-> reply.ledger ])
    /\ UNCHANGED << gateVars, privateKey, contractVars, lastTx, calls, disconnectedAt >>

\* the operator sets PRIVATE_KEY; the route reads it on every request
SetPrivateKey ==
    /\ ~privateKey
    /\ privateKey' = TRUE
    /\ UNCHANGED << gateVars, ledger, settleLog, contractVars, lastTx, callerVars >>

RouteNext ==
    \/ \E body \in RouteBodies : RoutePOST(body)
    \/ SetPrivateKey

\* The facilitator's /settle route, with or without its key, answering any
\* client.
RouteSpec == Init /\ [][RouteNext]_vars

\* ================================================================ claims
Has(r, e) == \E i \in DOMAIN trace[r] : trace[r][i] = e
Count(r, e) == Cardinality({ i \in DOMAIN trace[r] : trace[r][i] = e })
Responded(r) == resp[r].status # 0
\* the authorization a request presented, for requests that got past step 2
AuthOf(r) == AuthKey(DecodeHeader(hdr[r]).json.payload.authorization)

\* C1: in the trace of one request every call of /settle comes after /verify
\* replied isValid=true for the payload that request carries.
C1_SettleOnlyAfterValidVerify ==
    \A r \in Reqs : \A i \in DOMAIN trace[r] :
        trace[r][i] = "settle" =>
            /\ \E j \in 1..(i - 1) : trace[r][j] = "verifyValid"
            /\ verify(DecodeHeader(hdr[r]).json, paymentDetailsRequired).isValid

C1_Witness == \E r \in Reqs : Has(r, "verifyValid") /\ Has(r, "settle")

\* C2: a request whose trigger (the requestNFT write) failed is answered 500
\* and never calls /settle; the ledger processed no settlement for it.
C2_TriggerFailureNeverSettles ==
    \A r \in Reqs :
        Has(r, "triggerFailed") =>
            /\ resp[r].status = 500
            /\ ~Has(r, "settle")
            /\ pc[r] = "done"

C2_Witness == \E r \in Reqs : Has(r, "triggerFailed") /\ resp[r].status = 500

\* C3: a request whose payload the Verifier reported invalid is answered 402
\* with the payment terms and the Verifier's reason, and neither the trigger
\* nor /settle is invoked for it.
C3_InvalidPayloadRejected ==
    \A r \in Reqs :
        Has(r, "verifyInvalid") =>
            /\ resp[r].status = 402
            /\ resp[r].body.paymentDetails = DeclaredPaymentDetails
            /\ resp[r].body.details =
                   verify(DecodeHeader(hdr[r]).json, DeclaredPaymentDetails).invalidReason
            /\ resp[r].body.details # ""
            /\ ~Has(r, "trigger")
            /\ ~Has(r, "triggerOk")
            /\ ~Has(r, "settle")

\* scenario C: amount 40000 against 50000 required
C3_Witness ==
    \E r \in Reqs :
        /\ hdr[r] = LowValueHeader
        /\ Has(r, "verifyInvalid")
        /\ resp[r].body.details = "insufficient-amount"

\* C4: a request without the X-PAYMENT header is answered, in the one step
\* that receives it, with 402 and the declared terms, and that step calls
\* nothing and changes neither the terms nor any other component.
C4_MissingHeaderChallenged ==
    [][ \A r \in Reqs :
          (pc[r] = "idle" /\ pc'[r] # "idle" /\ HeaderMissing(hdr'[r])) =>
              /\ resp'[r].status = 402
              /\ resp'[r].body.paymentDetails = DeclaredPaymentDetails
              /\ pc'[r] = "done"
              /\ trace' = trace
              /\ trace[r] = << >>
              /\ paymentDetailsRequired' = paymentDetailsRequired
              /\ UNCHANGED << mintTxHash, settlementResult, facilitatorVars, contractVars, lastTx >>
      ]_vars

\* a header-less request answered after an earlier request went through
\* verify, trigger and settle
C4_Witness ==
    \E r \in Reqs, q \in Reqs :
        /\ q < r
        /\ Has(q, "settleReplied")
        /\ HeaderMissing(hdr[r])
        /\ resp[r].status = 402
        /\ resp[r].body.paymentDetails = DeclaredPaymentDetails

\* C5: a request whose trigger succeeded calls /settle exactly once, directly
\* after the trigger and before any response; no response follows a
\* successful trigger without that call.
C5_SettleFollowsTrigger ==
    \A r \in Reqs : \A i \in DOMAIN trace[r] :
        trace[r][i] = "triggerOk" =>
            /\ i + 1 \in DOMAIN trace[r]
            /\ trace[r][i + 1] = "settle"
            /\ Count(r, "settle") = 1
            /\ (Responded(r) => resp[r].status = 200 /\ Len(trace[r]) > i + 1)

\* the /settle call is in flight while the triggered request is unfulfilled
C5_Witness ==
    \E r \in Reqs :
        /\ pc[r] = "settling"
        /\ Has(r, "triggerOk")
        /\ mintTxHash[r] # NoHash
        /\ ~s_requests[mintTxHash[r][2]].fulfilled

\* C6: the response after a successful trigger carries the trigger's
\* reference and a settlement field holding the receipt (or the failure).
C6_ResponseCarriesSettlement ==
    \A r \in Reqs :
        (Has(r, "triggerOk") /\ Responded(r)) =>
            /\ "nftMintTxHash" \in DOMAIN resp[r].body
            /\ "settlement" \in DOMAIN resp[r].body

\* C7: over all requests, /settle is called at most once per authorization.
C7_SettleOncePerAuthorization ==
    \A r \in Reqs, q \in Reqs :
        (r # q /\ Has(r, "settle") /\ Has(q, "settle")) => AuthOf(r) # AuthOf(q)

\* the settle operations the ledger processed for the authorization of entry i
SameAuth(i, j) ==
    AuthKey(settleLog[i].payload.json.payload.authorization)
        = AuthKey(settleLog[j].payload.json.payload.authorization)
EarlierMoved(i) == \E j \in 1..(i - 1) : SameAuth(i, j) /\ settleLog[j].moved
Covered(i) ==
    LET a == settleLog[i].payload.json.payload.authorization
    IN  settleLog[i].balances[a.from] >= a.value
Debits(p) ==
    Cardinality({ i \in DOMAIN settleLog :
                    settleLog[i].moved
                    /\ settleLog[i].payload.json.payload.authorization.from = p })

Delivered(id) ==
    /\ lastTx' # lastTx
    /\ lastTx'.fn = "fulfillRandomWords"
    /\ lastTx'.requestId = id

\* C9: a delivery of fulfillRandomWords for a request that is already
\* fulfilled changes nothing of the contract: the fulfilled flag, the stored
\* words, the token counter, the owners and the character indices stay as
\* the first delivery left them.
C9_DuplicateFulfillmentChangesNothing ==
    [][ \A id \in RequestIds :
          (s_requests[id].fulfilled /\ Delivered(id)) =>
              /\ s_requests' = s_requests
              /\ s_requestIdToRecipient' = s_requestIdToRecipient
              /\ tokenIdCounter' = tokenIdCounter
              /\ owners' = owners
              /\ s_tokenIdToCharacterIndex' = s_tokenIdToCharacterIndex
              /\ tokenURIs' = tokenURIs
      ]_vars

\* a second delivery, with other words than the first, has been made for a
\* fulfilled request that holds the first delivery's words and one token
C9_Witness ==
    \E id \in RequestIds :
        /\ lastTx.fn = "fulfillRandomWords"
        /\ lastTx.requestId = id
        /\ lastTx.reason = "Request already fulfilled"
        /\ s_requests[id].fulfilled
        /\ s_requests[id].randomWords = << MaxRandom >>
        /\ tokenIdCounter = 1
        /\ s_tokenIdToCharacterIndex[0] = MaxRandom % NUM_CHARACTERS

\* C10 as claimed: a delivery for a request id that was never submitted
\* completes without reverting.  (A reverted call changes nothing and exists
\* is never reset, so the id is unknown before the call iff it is after.)
C10_UnknownFulfillmentCompletes ==
    (lastTx.fn = "fulfillRandomWords" /\ ~s_requests[lastTx.requestId].exists)
        => ~lastTx.reverted

\* C10 as amended: a delivery for a request id that was never submitted
\* reverts with "Request not found" and changes no state of the contract.
C10_UnknownFulfillmentReverts ==
    [][ \A id \in RequestIds :
          (~s_requests[id].exists /\ Delivered(id)) =>
              /\ lastTx'.reverted
              /\ lastTx'.reason = "Request not found"
              /\ UNCHANGED contractVars
      ]_vars

C10_Witness ==
    /\ lastTx.fn = "fulfillRandomWords"
    /\ lastTx.reverted
    /\ lastTx.reason = "Request not found"
    /\ ~s_requests[lastTx.requestId].exists

\* C12: every request id requestNFT has returned has its row (exists) and,
\* until it is fulfilled, a non-zero recipient; right after requestNFT returns
\* the row is (exists, not fulfilled, no words); and no delivery ever reaches
\* the recipient lookup to find the zero address.
C12_SubmitRecordsRecipient ==
    /\ \A id \in RequestIds :
         id \in issued =>
             /\ s_requests[id].exists
             /\ ~s_requests[id].fulfilled => s_requestIdToRecipient[id] # ZeroAddress
    /\ (lastTx.fn = "requestNFT" /\ ~lastTx.reverted) =>
             /\ lastTx.requestId \in issued
             /\ s_requests[lastTx.requestId] =
                    [ fulfilled |-> FALSE, exists |-> TRUE, randomWords |-> << >> ]
             /\ s_requestIdToRecipient[lastTx.requestId] # ZeroAddress
    /\ lastTx.reason # "Recipient address cannot be zero"

\* a delivery for a submitted request went through and minted to its recipient
C12_Witness ==
    /\ lastTx.fn = "fulfillRandomWords"
    /\ ~lastTx.reverted
    /\ lastTx.requestId \in issued
    /\ owners[0] = "alice"
    /\ \E id \in issued : ~s_requests[id].fulfilled /\ s_requestIdToRecipient[id] = NonReceiver

NumFulfilled == Cardinality({ id \in RequestIds : s_requests[id].fulfilled })

\* C13: there are exactly as many tokens as fulfilled requests and no token
\* beyond the counter has an owner; every step that changes the counter, an
\* owner, a character index or a token URI is a delivery that turns its
\* request from unfulfilled to fulfilled and mints one token to that request's
\* recipient; a requestNFT step changes none of them.
C13_MintOnlyOnFulfillment ==
    /\ [](/\ tokenIdCounter = NumFulfilled
          /\ \A t \in TokenIds : t >= tokenIdCounter => owners[t] = ZeroAddress)
    /\ [][ /\ tokenVars' # tokenVars =>
                \E id \in RequestIds :
                    /\ Delivered(id)
                    /\ ~lastTx'.reverted
                    /\ ~s_requests[id].fulfilled
                    /\ s_requests'[id].fulfilled
                    /\ tokenIdCounter' = tokenIdCounter + 1
                    /\ owners' = [ owners EXCEPT ![tokenIdCounter] = s_requestIdToRecipient[id] ]
           /\ (lastTx' # lastTx /\ lastTx'.fn = "requestNFT") => tokenVars' = tokenVars
         ]_vars

\* one request fulfilled and minted, a second one submitted and still without
\* a token
C13_Witness ==
    /\ tokenIdCounter = 1
    /\ owners[0] = "alice"
    /\ lastTx.fn = "requestNFT"
    /\ ~lastTx.reverted
    /\ ~s_requests[lastTx.requestId].fulfilled
    /\ \A t \in TokenIds : t >= 1 => owners[t] = ZeroAddress

\* C14: a delivery that goes through stores, for the token it mints, the
\* first delivered word modulo 4: the index is in 0..3, equals v % 4 for the
\* stored word v, and the token URI is built from that index.
C14_CharacterIsWordMod4 ==
    [][ \A id \in RequestIds :
          (Delivered(id) /\ ~lastTx'.reverted) =>
              LET v == s_requests'[id].randomWords[1]
                  characterIndex == s_tokenIdToCharacterIndex'[tokenIdCounter]
              IN  /\ characterIndex = v % 4
                  /\ characterIndex \in 0..3
                  /\ NUM_CHARACTERS = 4
                  /\ tokenURIs'[tokenIdCounter][1] = characterIndex
      ]_vars

\* the words 1 and 5 were delivered for two requests: both tokens carry index 1
C14_Witness ==
    \E id \in RequestIds, jd \in RequestIds :
        /\ s_requests[id].fulfilled /\ s_requests[id].randomWords = << 1 >>
        /\ s_requests[jd].fulfilled /\ s_requests[jd].randomWords = << 5 >>
        /\ tokenIdCounter = 2
        /\ s_tokenIdToCharacterIndex[0] = 1
        /\ s_tokenIdToCharacterIndex[1] = 1

\* C16: a request row, once it exists, exists in every later state; its
\* fulfilled flag never goes back to false; its words are empty while it is
\* unfulfilled and never change once it is fulfilled; a step that changes the
\* row either creates it or is its one fulfillment.
C16_RowMutatedOnce ==
    [][ \A id \in RequestIds :
          /\ s_requests[id].exists => s_requests'[id].exists
          /\ s_requests[id].fulfilled =>
                 /\ s_requests'[id].fulfilled
                 /\ s_requests'[id].randomWords = s_requests[id].randomWords
          /\ ~s_requests'[id].fulfilled => s_requests'[id].randomWords = << >>
          /\ s_requests'[id] # s_requests[id] =>
                 \/ /\ ~s_requests[id].exists
                    /\ s_requests'[id] =
                           [ fulfilled |-> FALSE, exists |-> TRUE, randomWords |-> << >> ]
                 \/ /\ s_requests[id].exists
                    /\ ~s_requests[id].fulfilled
                    /\ s_requests'[id].exists
                    /\ s_requests'[id].fulfilled
                    /\ Len(s_requests'[id].randomWords) = 1
      ]_vars

\* a fulfilled row that kept its words through a later delivery with other
\* words and a later requestNFT
C16_Witness ==
    /\ s_requests[1].fulfilled
    /\ s_requests[1].randomWords = << 2 >>
    /\ lastTx.fn = "requestNFT"
    /\ lastTx.requestId = 2
    /\ s_requests[2].exists

PayerOf(r) == DecodeHeader(hdr[r]).json.payload.authorization.from

\* C15: for every request whose trigger succeeded, the header was verified
\* valid, and the request id the trigger returned carries the header's
\* authorization.from as recipient until it is fulfilled; the delivery that
\* fulfils that id mints its token to that same address.
C15_BeneficiaryIsPayer ==
    /\ [](\A r \in Reqs :
            Has(r, "triggerOk") =>
                LET id == mintTxHash[r][2] IN
                /\ Has(r, "verifyValid")
                /\ id \in issued
                /\ PayerOf(r) \in Payers
                /\ IF s_requests[id].fulfilled
                   THEN \E t \in TokenIds : t < tokenIdCounter /\ owners[t] = PayerOf(r)
                   ELSE s_requestIdToRecipient[id] = PayerOf(r))
    /\ [][ \A r \in Reqs :
             (Has(r, "triggerOk") /\ Delivered(mintTxHash[r][2]) /\ ~lastTx'.reverted) =>
                 owners'[tokenIdCounter] = PayerOf(r)
         ]_vars

\* alice paid for the first request and bob for the second; the second was
\* fulfilled first: token 0 is bob's and token 1 is alice's
C15_Witness ==
    /\ Has(1, "triggerOk") /\ PayerOf(1) = "alice" /\ mintTxHash[1] = << "mint", 1 >>
    /\ Has(2, "triggerOk") /\ PayerOf(2) = "bob" /\ mintTxHash[2] = << "mint", 2 >>
    /\ owners[0] = "bob"
    /\ owners[1] = "alice"

\* a header that is present and does not decode, or names another scheme or
\* network, or has no authorization.from
Malformed(h) ==
    /\ h.kind \notin { "absent", "empty" }
    /\ \/ h.kind # "b64json"
       \/ h.json.scheme # "exact"
       \/ h.json.networkId # "84532"
       \/ ~HasFrom(h.json)

\* C17: a request with such a header is answered 400 in the step that
\* receives it, and that step changes nothing of the facilitator or the
\* contract; in every state the request has called neither /verify nor the
\* trigger nor /settle and holds no transaction hash.
C17_MalformedHeaderRejected ==
    /\ [](\A r \in Reqs :
            (pc[r] # "idle" /\ Malformed(hdr[r])) =>
                /\ pc[r] = "done"
                /\ resp[r].status = 400
                /\ resp[r].body.error = "Invalid payment header format."
                /\ trace[r] = << >>
                /\ mintTxHash[r] = NoHash)
    /\ [][ \A r \in Reqs :
             (pc[r] = "idle" /\ pc'[r] # "idle" /\ Malformed(hdr'[r])) =>
                 /\ resp'[r].status = 400
                 /\ UNCHANGED << facilitatorVars, contractVars, lastTx >>
         ]_vars

\* an undecodable header and a header for another network, both answered 400
C17_Witness ==
    \E r \in Reqs, q \in Reqs :
        /\ hdr[r] = GarbageHeader /\ resp[r].status = 400
        /\ hdr[q] = WrongNetworkHeader /\ resp[q].status = 400
        /\ trace[r] = << >> /\ trace[q] = << >>

\* C18 as claimed: a request whose envelope carries another protocol version
\* is answered 400 and never reaches /verify.
C18_WrongVersionRejected ==
    \A r \in Reqs :
        (pc[r] # "idle" /\ hdr[r] = WrongVersionHeader) =>
            /\ resp[r].status = 400
            /\ ~Has(r, "verify")

\* the requests of run k that carry a signed header
SignedIn(k) == { i \in DOMAIN calls[k].requests : calls[k].requests[i] # AbsentHeader }
NonceIn(k, i) == calls[k].requests[i].json.payload.authorization.nonce

\* C11: in every run of the client at most 2 requests are sent and at most
\* one header is signed; the first request has no header; a first reply of
\* 402 is followed by exactly one retry, which carries a header signed by the
\* client's account that the Gate's terms accept; a 402 on the retry ends the
\* run in failure with nothing more sent; nonces differ between runs.
C11_RetryAtMostOnce ==
    /\ \A k \in DOMAIN calls :
         LET c == calls[k] IN
         /\ Len(c.requests) <= 2
         /\ Cardinality(SignedIn(k)) <= 1
         /\ c.requests[1] = AbsentHeader
         /\ (Len(c.replies) >= 1 /\ c.replies[1] = 402) <=> Len(c.requests) = 2
         /\ Len(c.requests) = 2 =>
                /\ c.requests[2].kind = "b64json"
                /\ ~HeaderRejected(c.requests[2].json)
                /\ c.requests[2].json.payload.authorization.from = clientAccount
                /\ verify(c.requests[2].json, DeclaredPaymentDetails).isValid
         /\ (Len(c.replies) = 2 /\ c.replies[2] = 402) => c.outcome = "exited"
         /\ c.outcome = "succeeded" <=> (c.replies # << >> /\ c.replies[Len(c.replies)] = 200)
         /\ c.outcome # "pending" <=> Len(c.replies) = Len(c.requests)
    /\ \A k \in DOMAIN calls, l \in DOMAIN calls :
         (k # l /\ Len(calls[k].requests) = 2 /\ Len(calls[l].requests) = 2) =>
             NonceIn(k, 2) # NonceIn(l, 2)

\* a run whose retry was answered 402 again and ended in failure after two
\* requests, then a run whose retry succeeded
C11_Witness ==
    /\ Len(calls) = 2
    /\ calls[1].replies = << 402, 402 >>
    /\ calls[1].outcome = "exited"
    /\ Len(calls[1].requests) = 2
    /\ calls[2].replies = << 402, 200 >>
    /\ calls[2].outcome = "succeeded"
    /\ NonceIn(1, 2) # NonceIn(2, 2)

\* C19 as claimed: every request that presents a payment header is
\* eventually answered.
C19_HeaderRequestAnswered ==
    \A r \in Reqs : (pc[r] # "idle" /\ ~HeaderMissing(hdr[r])) ~> Responded(r)

\* C20: a request whose trigger succeeded has called /settle and its request
\* row exists, whether or not its caller has left and wherever the handler
\* was when it left; once the handler is done the request was answered 200;
\* the caller's leaving changes nothing of the Gate, the facilitator or the
\* contract.
C20_SettleDespiteDisconnect ==
    /\ [](\A r \in Reqs :
            Has(r, "triggerOk") =>
                /\ Has(r, "settle")
                /\ s_requests[mintTxHash[r][2]].exists
                /\ pc[r] \in { "settling", "done" }
                /\ pc[r] = "done" =>
                       /\ resp[r].status = 200
                       /\ Has(r, "settleReplied") \/ Has(r, "settleError"))
    /\ [][ disconnectedAt' # disconnectedAt =>
               UNCHANGED << gateVars, facilitatorVars, contractVars, lastTx >>
         ]_vars

\* one caller left while the trigger was in flight, another while /settle
\* was: both requests were settled, the first one's transfer went through
C20_Witness ==
    /\ disconnectedAt[1] = "minting"
    /\ disconnectedAt[2] = "settling"
    /\ Has(1, "triggerOk") /\ Has(1, "settleReplied")
    /\ Has(2, "triggerOk") /\ Has(2, "settleReplied")
    /\ settleLog # << >>
    /\ settleLog[1].moved

\* the delivery a pending request with a receiving recipient would get
Deliverable(id) ==
    /\ s_requests[id].exists
    /\ ~s_requests[id].fulfilled
    /\ s_requestIdToRecipient[id] \notin { ZeroAddress, NonReceiver }

\* C22: a transaction on one request id leaves the row and the recipient of
\* every other id as they were; the entry of an id is what its own
\* operations produce (created as (exists, unfulfilled, no words) with its
\* recipient, then fulfilled with the words of its own delivery); and a
\* pending request's delivery goes through whatever the state of the others.
C22_PerIdIsolation ==
    /\ [](\A id \in RequestIds :
            Deliverable(id) => \A v \in RandomValues : fulfillRevert(id, << v >>) = "")
    /\ [][ \A id \in RequestIds :
             \/ /\ s_requests'[id] = s_requests[id]
                /\ s_requestIdToRecipient'[id] = s_requestIdToRecipient[id]
             \/ /\ lastTx'.requestId = id
                /\ ~lastTx'.reverted
                /\ \A jd \in RequestIds \ { id } :
                       /\ s_requests'[jd] = s_requests[jd]
                       /\ s_requestIdToRecipient'[jd] = s_requestIdToRecipient[jd]
                /\ \/ /\ lastTx'.fn = "requestNFT"
                      /\ s_requests'[id] =
                             [ fulfilled |-> FALSE, exists |-> TRUE, randomWords |-> << >> ]
                      /\ s_requestIdToRecipient'[id] # ZeroAddress
                   \/ /\ lastTx'.fn = "fulfillRandomWords"
                      /\ s_requests'[id].fulfilled
                      /\ Len(s_requests'[id].randomWords) = 1
                      /\ s_requestIdToRecipient'[id] = ZeroAddress
         ]_vars

\* request 2 was fulfilled with word 3 while request 1, made before it, is
\* still pending with its recipient and no words
C22_Witness ==
    /\ s_requests[2].fulfilled
    /\ s_requests[2].randomWords = << 3 >>
    /\ s_requests[1] = [ fulfilled |-> FALSE, exists |-> TRUE, randomWords |-> << >> ]
    /\ s_requestIdToRecipient[1] = "alice"
    /\ lastTx.fn = "fulfillRandomWords"
    /\ lastTx.requestId = 2
    /\ ~lastTx.reverted

\* C24: for every request id the stored recipient is non-zero exactly when
\* the request exists and is not fulfilled.
C24_RecipientEvictedOnFulfillment ==
    \A id \in RequestIds :
        (s_requestIdToRecipient[id] # ZeroAddress)
            <=> (s_requests[id].exists /\ ~s_requests[id].fulfilled)

\* one request fulfilled and its recipient cleared, one pending with its
\* recipient, after a second delivery was refused
C24_Witness ==
    \E id \in RequestIds, jd \in RequestIds :
        /\ s_requests[id].fulfilled
        /\ s_requestIdToRecipient[id] = ZeroAddress
        /\ owners[0] = "alice"
        /\ s_requests[jd].exists
        /\ ~s_requests[jd].fulfilled
        /\ s_requestIdToRecipient[jd] = "alice"
        /\ lastTx.reason = "Request already fulfilled"

\* C26: the token counter is the number of fulfilled requests; the tokens
\* below the counter are owned and carry their own id in their URI, the
\* others are not minted; a delivery that goes through mints the token whose
\* id is the number of requests fulfilled before it and changes no other
\* token.
C26_TokensCountFulfillments ==
    /\ [](/\ tokenIdCounter = Cardinality({ id \in RequestIds : s_requests[id].fulfilled })
          /\ \A t \in TokenIds :
               IF t < tokenIdCounter
               THEN owners[t] # ZeroAddress /\ tokenURIs[t] # NoURI /\ tokenURIs[t][2] = t
               ELSE owners[t] = ZeroAddress /\ tokenURIs[t] = NoURI)
    /\ [][ \A id \in RequestIds :
             (Delivered(id) /\ ~lastTx'.reverted) =>
                 LET before == Cardinality({ jd \in RequestIds : s_requests[jd].fulfilled }) IN
                 /\ tokenIdCounter' = before + 1
                 /\ owners[before] = ZeroAddress
                 /\ owners'[before] = s_requestIdToRecipient[id]
                 /\ \A t \in TokenIds \ { before } :
                        /\ owners'[t] = owners[t]
                        /\ tokenURIs'[t] = tokenURIs[t]
                        /\ s_tokenIdToCharacterIndex'[t] = s_tokenIdToCharacterIndex[t]
         ]_vars

\* request 2 was fulfilled before request 1: token 0 carries request 2's
\* character and token 1 request 1's
C26_Witness ==
    /\ s_requests[1].fulfilled /\ s_requests[1].randomWords = << 2 >>
    /\ s_requests[2].fulfilled /\ s_requests[2].randomWords = << 1 >>
    /\ tokenIdCounter = 2
    /\ s_tokenIdToCharacterIndex[0] = 1
    /\ s_tokenIdToCharacterIndex[1] = 2
    /\ lastTx.requestId = 1

\* the request id the trigger of request r returned
IdOf(r) == mintTxHash[r][2]

\* C21: a triggered request stays recorded, and while it is unfulfilled its
\* delivery would go through, whether its /settle call is pending, has
\* succeeded or has failed; the steps that end the /settle call change
\* nothing of the contract, and a delivery changes nothing of the Gate or
\* the facilitator and goes through for a triggered pending request.
C21_SettleAndFulfillIndependent ==
    /\ [](\A r \in Reqs :
            Has(r, "triggerOk") =>
                /\ pc[r] \in { "settling", "done" }
                /\ s_requests[IdOf(r)].exists
                /\ ~s_requests[IdOf(r)].fulfilled =>
                       \A v \in RandomValues : fulfillRevert(IdOf(r), << v >>) = "")
    /\ [][ /\ \A r \in Reqs :
                (pc[r] = "settling" /\ pc'[r] # "settling") =>
                    UNCHANGED << contractVars, lastTx >>
           /\ \A r \in Reqs :
                (Has(r, "triggerOk") /\ Delivered(IdOf(r))) =>
                    /\ UNCHANGED << gateVars, facilitatorVars >>
                    /\ ~s_requests[IdOf(r)].fulfilled =>
                           /\ ~lastTx'.reverted
                           /\ s_requests'[IdOf(r)].fulfilled
         ]_vars

\* request 1 was fulfilled while its /settle call is still in flight;
\* request 2, whose payer holds no funds, was fulfilled and minted after its
\* settlement failed
C21_Witness ==
    /\ Has(1, "triggerOk") /\ pc[1] = "settling" /\ s_requests[IdOf(1)].fulfilled
    /\ Has(2, "triggerOk") /\ Has(2, "settleReplied")
    /\ ~settlementResult[2].success
    /\ s_requests[IdOf(2)].fulfilled
    /\ \E t \in TokenIds : owners[t] = "bob"
    /\ PayerOf(2) = "bob"

C25_VerifyCallFailureIs500 ==
    /\ [](\A r \in Reqs :
            Has(r, "verifyError") =>
                /\ pc[r] = "done"
                /\ resp[r].status = 500
                /\ resp[r].body.error = "Facilitator verification call failed."
                /\ ~Has(r, "verifyValid")
                /\ ~Has(r, "trigger")
                /\ ~Has(r, "triggerOk")
                /\ ~Has(r, "settle")
                /\ mintTxHash[r] = NoHash
                /\ settlementResult[r] = << >>)
    /\ [][ \A r \in Reqs :
             (~Has(r, "verifyError") /\ trace'[r] = Append(trace[r], "verifyError")) =>
                 UNCHANGED << facilitatorVars, contractVars, lastTx >>
         ]_vars

\* the call of /verify failed for a header the Verifier would have accepted
C25_Witness ==
    \E r \in Reqs :
        /\ trace[r] = << "verify", "verifyError" >>
        /\ resp[r].status = 500
        /\ verify(DecodeHeader(hdr[r]).json, paymentDetailsRequired).isValid
        /\ issued = {}
        /\ settleLog = << >>

\* C27: requestNFT reverts exactly for a zero recipient or a payment below
\* VRF fee + mint price; a reverted requestNFT hands out no request id and
\* leaves the request table, the recipients and the token state as they
\* were, and one that goes through stores a non-zero recipient; a trigger of
\* the Gate that got no request id ends the request with "triggerFailed" and
\* status 500, without a call of /settle.
C27_RejectedRequestChangesNothing ==
    /\ [](\A recipient \in Payers \cup { ZeroAddress, NonReceiver }, vrfFee \in VrfFees,
            msgValue \in { MINT_PRICE, MINT_ETH_VALUE - MINT_PRICE, MINT_ETH_VALUE } :
              (requestNFTRevert(recipient, msgValue, vrfFee) # "")
                  <=> (recipient = ZeroAddress \/ msgValue < vrfFee + MINT_PRICE))
    /\ [][ /\ (lastTx' # lastTx /\ lastTx'.fn = "requestNFT") =>
                IF lastTx'.reverted
                THEN /\ UNCHANGED contractVars
                     /\ lastTx'.reason \in { "Recipient cannot be zero address",
                                              "Insufficient payment (VRF fee + mint price)" }
                ELSE /\ issued' = issued \cup { lastTx'.requestId }
                     /\ lastTx'.requestId \notin issued
                     /\ s_requestIdToRecipient'[lastTx'.requestId] # ZeroAddress
           /\ \A r \in Reqs :
                (pc[r] = "minting" /\ pc'[r] # "minting" /\ issued' = issued) =>
                    /\ trace'[r] = Append(trace[r], "triggerFailed")
                    /\ pc'[r] = "done"
                    /\ resp'[r].status = 500
                    /\ mintTxHash'[r] = NoHash
                    /\ UNCHANGED << contractVars, facilitatorVars >>
         ]_vars

\* the Gate's trigger was rejected for its payment and answered 500; a
\* direct call with the zero address was rejected after a request was made
C27_Witness ==
    \E r \in Reqs :
        /\ Has(r, "triggerFailed")
        /\ resp[r].status = 500
        /\ resp[r].body.details = "Insufficient payment (VRF fee + mint price)"
        /\ ~Has(r, "settle")
        /\ lastTx.fn = "requestNFT"
        /\ lastTx.reason = "Recipient cannot be zero address"
        /\ Cardinality(issued) = 1
        /\ s_requests[1].exists

\* the requests to /settle that must not be settled
Refused(e) == ~e.key \/ ~SchemaOk(e.body.details)

\* C28: a request to /settle made while the key is unset is answered 500
\* with the configuration error; for such a request, and for one whose
\* details lack fields of PaymentDetails, the ledger after the reply is the
\* ledger before it and the reply is no receipt; the ledger processed one
\* settle operation for each of the other requests and none for these.
C28_RouteRefusesWithoutKeyOrDetails ==
    /\ \A i \in DOMAIN routeLog :
         LET e == routeLog[i] IN
         /\ ~e.key =>
                /\ e.status = 500
                /\ e.reply = [ error |-> "Server configuration error: Missing private key." ]
         /\ Refused(e) =>
                /\ e.after = e.before
                /\ e.status # 200
                /\ "success" \notin DOMAIN e.reply
         /\ ~Refused(e) =>
                /\ e.status = 200
                /\ "success" \in DOMAIN e.reply
    /\ Len(settleLog) = Cardinality({ i \in DOMAIN routeLog : ~Refused(routeLog[i]) })
    /\ \A a \in Accounts :
         (\A i \in DOMAIN routeLog : Refused(routeLog[i])) => ledger.balance[a] = InitialBalance[a]

\* a payable request refused for the missing key, then, the key set, the
\* same payload refused for its details, then settled with complete details
C28_Witness ==
    /\ Len(routeLog) = 3
    /\ routeLog[1].body = [ payload |-> GoodHeader("alice", 1), details |-> DeclaredPaymentDetails ]
    /\ ~routeLog[1].key
    /\ routeLog[1].status = 500
    /\ routeLog[2].body = [ payload |-> GoodHeader("alice", 1), details |-> IncompleteDetails ]
    /\ routeLog[2].key
    /\ routeLog[2].after.balance = InitialBalance
    /\ routeLog[3].body = routeLog[1].body
    /\ routeLog[3].reply.success
    /\ ledger.balance["alice"] = InitialBalance["alice"] - REQUIRED_USDC_PAYMENT
    /\ Len(settleLog) = 1

====
